---- MODULE Spec2Model ----
(***************************************************************************)
(* Model of src/src/fb.js: FB.data.Node / FB.data.Tree (a red/black        *)
(* interval tree) and the layout part of FB.ui.calendar.Calendar /         *)
(* FB.ui.calendar.Event.                                                   *)
(*                                                                         *)
(* A tree is a record of parallel sequences indexed by node handle         *)
(* (1..Len(data)); handle 0 (Null) is JavaScript's null.                   *)
(***************************************************************************)
EXTENDS Integers, Sequences, FiniteSets

VARIABLES
  tree,            \* a stand-alone FB.data.Tree, as the tests build it
  calendarTree,    \* Calendar._tree: <<>> is null, <<t>> a Tree
  events,          \* Calendar._events: <<>> is null, <<seq>> the ordered events
  renderedEvents,  \* Calendar._renderedEvents: the ids marked true
  layout,          \* top / left / width / height of the Event objects, by id
  binLists,        \* the `bins' arrays of the running render, by reference
  stack,           \* the activations of _render, innermost last
  html,            \* the records emitted so far by the running render
  innerHTML,       \* Calendar._eventsElement.innerHTML, as emitted records
  error,           \* the error thrown by the last Calendar call, "" if none
  pc,              \* "idle", or "render" while render() is running
  calls,           \* the calls and loop iterations of the last run of render()
  result,          \* the global `result' that searchInterval assigns
  returned         \* the last call of a method of `tree' and what it returned

calvars == <<calendarTree, events, renderedEvents, layout, binLists, stack,
             html, innerHTML, error, pc, calls>>

vars == <<tree, calendarTree, events, renderedEvents, layout, binLists, stack,
          html, innerHTML, error, pc, calls, result, returned>>

----------------------------------------------------------------------------
(* Bounds *)

MaxNodes == 4
MaxTime == 3
MaxEvents == 3
MaxRerunEvents == 1
MaxEventTime == 3
MaxQueryNodes == 3

----------------------------------------------------------------------------
(* FB.data.Node *)

Null == 0
BLACK == FALSE
RED == TRUE
LEFT == 0
RIGHT == 1

Max2(a, b) == IF a >= b THEN a ELSE b

\* new Tree(comparator): no root, size 0.  err is "" until an insert throws.
\* rotations is the history of the calls of _rotate on the tree: what each
\* call left in the two nodes it moved.
NewTree == [root |-> Null, size |-> 0, data |-> <<>>, left |-> <<>>,
            right |-> <<>>, parent |-> <<>>, color |-> <<>>, max |-> <<>>,
            err |-> "", rotations |-> <<>>]

Nodes(t) == 1..Len(t.data)

isRed(t, n) == t.color[n] = RED

isBlack(t, n) == t.color[n] = BLACK

getParent(t, n) == t.parent[n]

getGrandfather(t, n) ==
  IF getParent(t, n) # Null THEN getParent(t, getParent(t, n)) ELSE Null

getChild(t, n, direction) ==
  IF direction # 0 THEN t.right[n] ELSE t.left[n]

setChild(t, n, c, direction) ==
  IF direction # 0 THEN [t EXCEPT !.right[n] = c]
                   ELSE [t EXCEPT !.left[n] = c]

setParent(t, n, p) == [t EXCEPT !.parent[n] = p]

setColor(t, n, c) == [t EXCEPT !.color[n] = c]

setMax(t, n, m) == [t EXCEPT !.max[n] = m]

Throw(t, e) == [t EXCEPT !.err = e]

----------------------------------------------------------------------------
(* FB.ui.calendar.Event statics used by the tree *)

\* comparator with <= for <: equal starts descend to the left.
comparator_LessEq(event1, event2) ==
  IF event1.start <= event2.start THEN 0 ELSE 1

comparator(event1, event2) == IF event1.start < event2.start THEN 0 ELSE 1

\* isColliding with < and > for <= and >=.
isColliding_Strict(event1, event2) ==
  IF event1.start < event2.end /\ event1.end > event2.start
  THEN TRUE ELSE FALSE

isColliding(event1, event2) ==
  IF event1.start <= event2.end /\ event1.end >= event2.start
  THEN TRUE ELSE FALSE

----------------------------------------------------------------------------
(* FB.data.Tree *)

getSize(t) == t.size

\* _getMax that leaves out the end of the node itself.
TreeGetMax_NoOwnEnd(t, n) ==
  LET l == getChild(t, n, LEFT)
      r == getChild(t, n, RIGHT)
  IN Max2(IF l # Null THEN t.max[l] ELSE 0,
          IF r # Null THEN t.max[r] ELSE 0)

\* Math.max(node.data.end, Math.max(left max or 0, right max or 0))
TreeGetMax(t, n) ==
  LET l == getChild(t, n, LEFT)
      r == getChild(t, n, RIGHT)
  IN Max2(t.data[n].end,
          Max2(IF l # Null THEN t.max[l] ELSE 0,
               IF r # Null THEN t.max[r] ELSE 0))

\* node.setMax(this._getMax(node))
UpdateMax(t, n) == setMax(t, n, TreeGetMax(t, n))

\* _rotate, line 323: node.setChild(child.getChild(direction), otherDirection)
RotateMoveGrandchild(t, node, child, direction, otherDirection) ==
  setChild(t, node, getChild(t, child, direction), otherDirection)

\* _rotate that leaves the parent of the moved grandchild as it was.
RotateAdoptGrandchild_Skip(t, node, child, direction) == t

\* _rotate, lines 324-326: the moved grandchild, if any, gets node as parent
RotateAdoptGrandchild(t, node, child, direction) ==
  IF getChild(t, child, direction) # Null
  THEN setParent(t, getChild(t, child, direction), node)
  ELSE t

\* _rotate, lines 327-336: child takes the place of node below node's parent
RotateReplace(t, node, child, direction, otherDirection) ==
  IF getParent(t, node) = Null
  THEN [setParent(t, child, Null) EXCEPT !.root = child]
  ELSE IF node = getChild(t, getParent(t, node), direction)
       THEN setChild(setParent(t, child, getParent(t, node)),
                     getParent(t, node), child, direction)
       ELSE setChild(setParent(t, child, getParent(t, node)),
                     getParent(t, node), child, otherDirection)

\* _rotate, lines 337-338: node becomes the child of child
RotateDescend(t, node, child, direction) ==
  setParent(setChild(t, child, node, direction), node, child)

\* The state of node and child when _rotate returns: the max each caches and
\* what _getMax gives for each.
RotationRecord(t, node, child) ==
  [down |-> node, up |-> child,
   downMax |-> t.max[node], downGetMax |-> TreeGetMax(t, node),
   upMax |-> t.max[child], upGetMax |-> TreeGetMax(t, child)]

RotateReturn(t, node, child) ==
  [t EXCEPT !.rotations = Append(@, RotationRecord(t, node, child))]

\* _rotate, lines 323-342, for a present child
RotateWith(t, node, child, direction, otherDirection) ==
  RotateReturn(
   UpdateMax(
    UpdateMax(
      RotateDescend(
        RotateReplace(
          RotateAdoptGrandchild(
            RotateMoveGrandchild(t, node, child, direction, otherDirection),
            node, child, direction),
          node, child, direction, otherDirection),
        node, child, direction),
      child),
    node),
   node, child)

\* _rotate that takes the child on the side it rotates to.
Rotate_SameSide(t, node, direction) ==
  IF getChild(t, node, direction) = Null THEN Throw(t, "Child is null")
  ELSE RotateWith(t, node, getChild(t, node, direction),
                  IF direction = RIGHT THEN LEFT ELSE RIGHT, direction)

\* _rotate(node, direction); _leftRotate is direction LEFT, _rightRotate RIGHT.
Rotate(t, node, direction) ==
  IF getChild(t, node, IF direction = RIGHT THEN LEFT ELSE RIGHT) = Null
  THEN Throw(t, "Child is null")
  ELSE RotateWith(t, node,
                  getChild(t, node, IF direction = RIGHT THEN LEFT ELSE RIGHT),
                  direction, IF direction = RIGHT THEN LEFT ELSE RIGHT)

\* The descent loop of _insertNode: the last node visited (Null on an empty tree).
RECURSIVE Descend(_, _, _, _)
Descend(t, d, parent, node) ==
  IF node = Null THEN parent
  ELSE Descend(t, d, node, getChild(t, node, comparator(d, t.data[node])))

\* _insertNode, lines 363-373, below the last node visited: <<tree, newNode>>
Attach(t, d, parent, newNode, color) ==
  IF parent = Null
  THEN <<[t EXCEPT !.data = Append(@, d), !.left = Append(@, Null),
                   !.right = Append(@, Null), !.parent = Append(@, parent),
                   !.color = Append(@, color), !.max = Append(@, 0),
                   !.root = newNode, !.size = @ + 1],
         newNode>>
  ELSE <<[setChild(t, parent, newNode, comparator(d, t.data[parent]))
            EXCEPT !.data = Append(@, d), !.left = Append(@, Null),
                   !.right = Append(@, Null), !.parent = Append(@, parent),
                   !.color = Append(@, color), !.max = Append(@, 0),
                   !.size = @ + 1],
         newNode>>

\* _insertNode that makes the new node BLACK.
InsertNode_Black(t, d) ==
  Attach(t, d, Descend(t, d, Null, t.root), Len(t.data) + 1, BLACK)

\* _insertNode that counts the node twice.
InsertNode_CountTwice(t, d) ==
  <<[Attach(t, d, Descend(t, d, Null, t.root), Len(t.data) + 1, RED)[1]
       EXCEPT !.size = @ + 1],
    Len(t.data) + 1>>

\* _insertNode(data): <<tree, newNode>>; the new node is RED.
InsertNode(t, d) ==
  Attach(t, d, Descend(t, d, Null, t.root), Len(t.data) + 1, RED)

\* _checkViolation, lines 250-253: the uncle is RED.
Recolour(t, node, uncle) ==
  <<setColor(setColor(setColor(t, getParent(t, node), BLACK), uncle, BLACK),
             getGrandfather(t, node), RED),
    getGrandfather(t, node)>>

\* _checkViolation, lines 255-262: a node on the inner side is replaced by its
\* parent, which is rotated outwards.
RotateInner(t, node, direction) ==
  IF node = getChild(t, getParent(t, node), direction)
  THEN <<Rotate(t, getParent(t, node),
                IF direction = RIGHT THEN LEFT ELSE RIGHT),
         getParent(t, node)>>
  ELSE <<t, node>>

\* _checkViolation, lines 263-269, on the <<tree, node>> of lines 255-262.  A
\* property read on null is a TypeError.
RotateOuter(r, direction) ==
  IF r[1].err # "" THEN r
  ELSE IF getParent(r[1], r[2]) = Null \/ getGrandfather(r[1], r[2]) = Null
  THEN <<Throw(r[1], "TypeError"), r[2]>>
  ELSE <<Rotate(setColor(setColor(r[1], getParent(r[1], r[2]), BLACK),
                         getGrandfather(r[1], r[2]), RED),
                getGrandfather(r[1], r[2]), direction),
         r[2]>>

\* _checkViolation(node, direction): <<tree, node>>
CheckViolation(t, node, direction) ==
  IF getGrandfather(t, node) = Null THEN <<Throw(t, "TypeError"), node>>
  ELSE IF getChild(t, getGrandfather(t, node), direction) # Null
          /\ isRed(t, getChild(t, getGrandfather(t, node), direction))
  THEN Recolour(t, node, getChild(t, getGrandfather(t, node), direction))
  ELSE RotateOuter(RotateInner(t, node, direction), direction)

\* The while loop of insert, from <<tree, node>>.
RECURSIVE FixUp(_)
FixUp(r) ==
  IF r[1].err # "" THEN r[1]
  ELSE IF r[2] = r[1].root THEN r[1]
  ELSE IF getParent(r[1], r[2]) = Null THEN Throw(r[1], "TypeError")
  ELSE IF ~isRed(r[1], getParent(r[1], r[2])) THEN r[1]
  ELSE IF getGrandfather(r[1], r[2]) = Null THEN Throw(r[1], "TypeError")
  ELSE FixUp(CheckViolation(r[1], r[2],
               IF getParent(r[1], r[2])
                    = getChild(r[1], getGrandfather(r[1], r[2]), LEFT)
               THEN RIGHT ELSE LEFT))

\* insert, line 223, on the <<tree, node>> of _insertNode
SetNewMax(r) == <<UpdateMax(r[1], r[2]), r[2]>>

\* insert, line 234
BlackenRoot(t) == IF t.err # "" THEN t ELSE setColor(t, t.root, BLACK)

\* insert without the fix-up loop.
TreeInsert_NoFixUp(t, d) == BlackenRoot(SetNewMax(InsertNode(t, d))[1])

\* insert that leaves the root as the fix-up coloured it.
TreeInsert_NoRootBlack(t, d) == FixUp(SetNewMax(InsertNode(t, d)))

\* insert(data)
TreeInsert(t, d) == BlackenRoot(FixUp(SetNewMax(InsertNode(t, d))))

\* minimum(node) for a present node: follow LEFT children to the end.
RECURSIVE minimum(_, _)
minimum(t, node) ==
  IF getChild(t, node, LEFT) # Null THEN minimum(t, getChild(t, node, LEFT))
  ELSE node

\* maximum that stops at the first RIGHT child.
maximum_OneStep(t, node) ==
  IF getChild(t, node, RIGHT) # Null THEN getChild(t, node, RIGHT) ELSE node

\* maximum(node) for a present node: follow RIGHT children to the end.
RECURSIVE maximum(_, _)
maximum(t, node) ==
  IF getChild(t, node, RIGHT) # Null THEN maximum(t, getChild(t, node, RIGHT))
  ELSE node

\* The parent-climbing loop of successor.
RECURSIVE ClimbWhile(_, _, _, _)
ClimbWhile(t, node, parent, direction) ==
  IF parent # Null /\ node = getChild(t, parent, direction)
  THEN ClimbWhile(t, parent, getParent(t, parent), direction)
  ELSE parent

successor(t, node) ==
  IF getChild(t, node, RIGHT) # Null
  THEN minimum(t, getChild(t, node, RIGHT))
  ELSE ClimbWhile(t, node, getParent(t, node), RIGHT)

predecessor(t, node) ==
  IF getChild(t, node, LEFT) # Null
  THEN maximum(t, getChild(t, node, LEFT))
  ELSE ClimbWhile(t, node, getParent(t, node), LEFT)

\* The collecting loop of getOrdered / getOrderedData.
RECURSIVE WalkSuccessors(_, _)
WalkSuccessors(t, node) ==
  IF node = Null THEN <<>>
  ELSE <<node>> \o WalkSuccessors(t, successor(t, node))

\* getOrdered() on a tree with a root: the nodes, minimum first.
getOrdered(t) == WalkSuccessors(t, minimum(t, t.root))

\* getOrderedData() on a tree with a root.
getOrderedData(t) ==
  LET nodes == getOrdered(t)
  IN [i \in 1..Len(nodes) |-> t.data[nodes[i]]]

\* searchInterval that pushes the node before it searches the left subtree.
RECURSIVE searchInterval_NodeFirst(_, _, _)
searchInterval_NodeFirst(t, interval, node) ==
  LET left == getChild(t, node, LEFT)
      right == getChild(t, node, RIGHT)
      r1 == IF isColliding(t.data[node], interval)
            THEN <<t.data[node]>>
            ELSE <<>>
      r2 == IF left # Null /\ t.max[left] >= interval.start
            THEN r1 \o searchInterval_NodeFirst(t, interval, left)
            ELSE r1
  IN IF right # Null /\ t.data[node].start <= interval.end
     THEN r2 \o searchInterval_NodeFirst(t, interval, right)
     ELSE r2

\* searchInterval that pushes every node it visits.
RECURSIVE searchInterval_NoTest(_, _, _)
searchInterval_NoTest(t, interval, node) ==
  LET left == getChild(t, node, LEFT)
      right == getChild(t, node, RIGHT)
      r1 == IF left # Null /\ t.max[left] >= interval.start
            THEN <<>> \o searchInterval_NoTest(t, interval, left)
            ELSE <<>>
      r2 == Append(r1, t.data[node])
  IN IF right # Null /\ t.data[node].start <= interval.end
     THEN r2 \o searchInterval_NoTest(t, interval, right)
     ELSE r2

\* searchInterval(interval, node) for a present node.  `result' is an implicit
\* global in the source: each call resets it, but the receiver of
\* result.concat(...) is bound before the recursive call runs and the
\* assignment stores the concatenation back, so every use reads the array of
\* the running call.
RECURSIVE searchInterval(_, _, _)
searchInterval(t, interval, node) ==
  LET left == getChild(t, node, LEFT)
      right == getChild(t, node, RIGHT)
      r1 == IF left # Null /\ t.max[left] >= interval.start
            THEN <<>> \o searchInterval(t, interval, left)
            ELSE <<>>
      r2 == IF isColliding(t.data[node], interval)
            THEN Append(r1, t.data[node])
            ELSE r1
  IN IF right # Null /\ t.data[node].start <= interval.end
     THEN r2 \o searchInterval(t, interval, right)
     ELSE r2

\* The loop of getBlackHeight: node is present.
RECURSIVE BlackHeightFrom(_, _)
BlackHeightFrom(t, node) ==
  LET next == getChild(t, node, 0)
  IN IF next = Null THEN 1
     ELSE (IF isBlack(t, next) THEN 1 ELSE 0) + BlackHeightFrom(t, next)

\* getBlackHeight() from the root.
getBlackHeight(t) == IF t.root = Null THEN 0 ELSE BlackHeightFrom(t, t.root)

\* The collecting loop of getReverseOrderedData.
RECURSIVE WalkPredecessors(_, _)
WalkPredecessors(t, node) ==
  IF node = Null THEN <<>>
  ELSE <<t.data[node]>> \o WalkPredecessors(t, predecessor(t, node))

\* getReverseOrderedData() on a tree with a root.
getReverseOrderedData(t) == WalkPredecessors(t, maximum(t, t.root))

\* searchInterval that appends to the array an earlier call left in `result'.
SearchCall_KeepResult(t, interval, global) ==
  global \o searchInterval(t, interval, t.root)

\* The global `result' after searchInterval(interval) on a tree with a root:
\* line 517 replaces the array an earlier call left, and the array returned is
\* the global itself.
SearchCall(t, interval, global) == searchInterval(t, interval, t.root)

----------------------------------------------------------------------------
(* A call of a method of the tree: its name, its arguments and its value *)

NoInterval == [start |-> 0, end |-> 0]

\* kind: "undefined", "node", "null", "nodes", "data", "number" or "TypeError"
\* (a property read on null); the value is in nodes, data or num.
Call(op, node, interval, kind, nodes, data, num) ==
  [op |-> op, node |-> node, interval |-> interval, kind |-> kind,
   nodes |-> nodes, data |-> data, num |-> num]

NoCall == Call("none", Null, NoInterval, "undefined", <<>>, <<>>, 0)

Throws(op, node, interval) ==
  Call(op, node, interval, "TypeError", <<>>, <<>>, 0)

ReturnsNode(op, node, n) ==
  IF n = Null THEN Call(op, node, NoInterval, "null", <<>>, <<>>, 0)
  ELSE Call(op, node, NoInterval, "node", <<n>>, <<>>, 0)

ReturnsData(op, interval, data) ==
  Call(op, Null, interval, "data", <<>>, data, 0)

\* insert that ends with `return node'.
InsertReturn_Node(data, node) ==
  Call("insert", Null, data, "node", <<node>>, <<>>, 0)

\* insert(data) has no return statement: the call yields undefined.
InsertReturn(data, node) ==
  Call("insert", Null, data, "undefined", <<>>, <<>>, 0)

----------------------------------------------------------------------------
(* fbTest.js: the tree of _createTreeTestData *)

TestDataSize == 10

TestEvent(i) == [id |-> i, start |-> 10 * i, end |-> 100 + (10 * i)]

IsTestDataPrefix(t) ==
  \A i \in 1..Len(t.data) : t.data[i] = TestEvent(i)

\* The intervals of the events of testEventColliding.
TestIntervals ==
  {[start |-> 20, end |-> 100], [start |-> 40, end |-> 150],
   [start |-> 160, end |-> 300]}

\* The interval testTreeSearchInterval asks for.
TestQuery == [start |-> 10, end |-> 30]

----------------------------------------------------------------------------
(* Specification of the tree *)

Intervals == {iv \in [start : 0..MaxTime, end : 0..MaxTime] : iv.start < iv.end}

Event(id, iv) == [id |-> id, start |-> iv.start, end |-> iv.end]

\* No run of render() yet: the ids _addToBin and searchInterval were called
\* with, in the order of the calls, and the iterations of the loop of _render.
NoCalls == [addToBin |-> <<>>, searchInterval |-> <<>>, iterations |-> 0]

\* new Tree(comparator) in a test, and new Calendar(id) without events.
Init ==
  /\ tree = NewTree
  /\ calendarTree = <<>>
  /\ events = <<>>
  /\ renderedEvents = {}
  /\ layout = <<>>
  /\ binLists = <<>>
  /\ stack = <<>>
  /\ html = <<>>
  /\ innerHTML = <<>>
  /\ error = ""
  /\ pc = "idle"
  /\ calls = NoCalls
  /\ result = <<>>
  /\ returned = NoCall

Insert ==
  /\ tree.err = ""
  /\ Len(tree.data) < MaxNodes
  /\ \E iv \in Intervals :
       /\ tree' = TreeInsert(tree, Event(Len(tree.data) + 1, iv))
       /\ returned' = InsertReturn(Event(Len(tree.data) + 1, iv),
                                   Len(tree.data) + 1)
  /\ UNCHANGED <<calvars, result>>

\* One iteration of the loop of _createTreeTestData.
CreateTreeTestData ==
  /\ tree.err = ""
  /\ Len(tree.data) < TestDataSize
  /\ IsTestDataPrefix(tree)
  /\ tree' = TreeInsert(tree, TestEvent(Len(tree.data) + 1))
  /\ returned' = InsertReturn(TestEvent(Len(tree.data) + 1), Len(tree.data) + 1)
  /\ UNCHANGED <<calvars, result>>

\* Eight intervals whose last insert rotates a node that caches a max below
\* the cached max of the child it keeps.
StaleRotationInput ==
  << [start |-> 3, end |-> 4], [start |-> 1, end |-> 6],
     [start |-> 1, end |-> 2], [start |-> 5, end |-> 6],
     [start |-> 1, end |-> 2], [start |-> 2, end |-> 5],
     [start |-> 1, end |-> 3], [start |-> 2, end |-> 5] >>

\* tree.insert of the next interval of StaleRotationInput.
InsertStaleRotation ==
  /\ tree.err = ""
  /\ Len(tree.data) < Len(StaleRotationInput)
  /\ \A i \in 1..Len(tree.data) : tree.data[i] = Event(i, StaleRotationInput[i])
  /\ tree' = TreeInsert(tree, Event(Len(tree.data) + 1,
                                    StaleRotationInput[Len(tree.data) + 1]))
  /\ returned' = InsertReturn(Event(Len(tree.data) + 1,
                                    StaleRotationInput[Len(tree.data) + 1]),
                              Len(tree.data) + 1)
  /\ UNCHANGED <<calvars, result>>

Next == Insert \/ CreateTreeTestData \/ InsertStaleRotation

Spec == Init /\ [][Next]_vars

----------------------------------------------------------------------------
(* Specification of the queries of the tree *)

\* The intervals asked for: those of the tests.
QueryIntervals == TestIntervals \cup {TestQuery}

\* What is left alone by a call of a method of `tree' that is no insert.
QueryFrame == UNCHANGED <<tree, calvars>>

InsertQueried ==
  /\ tree.err = ""
  /\ Len(tree.data) < MaxQueryNodes
  /\ \E iv \in TestIntervals :
       /\ tree' = TreeInsert(tree, Event(Len(tree.data) + 1, iv))
       /\ returned' = InsertReturn(Event(Len(tree.data) + 1, iv),
                                   Len(tree.data) + 1)
  /\ UNCHANGED <<calvars, result>>

\* getSize()
GetSize ==
  /\ tree.err = ""
  /\ returned' = Call("getSize", Null, NoInterval, "number", <<>>, <<>>,
                      getSize(tree))
  /\ UNCHANGED result
  /\ QueryFrame

\* minimum(node) and minimum(): `node || this._root' is null on an empty tree.
Minimum ==
  /\ tree.err = ""
  /\ \E node \in Nodes(tree) \cup {Null} :
       returned' =
         IF node = Null /\ tree.root = Null
         THEN Throws("minimum", node, NoInterval)
         ELSE ReturnsNode("minimum", node,
                minimum(tree, IF node # Null THEN node ELSE tree.root))
  /\ UNCHANGED result
  /\ QueryFrame

\* maximum(node) and maximum()
Maximum ==
  /\ tree.err = ""
  /\ \E node \in Nodes(tree) \cup {Null} :
       returned' =
         IF node = Null /\ tree.root = Null
         THEN Throws("maximum", node, NoInterval)
         ELSE ReturnsNode("maximum", node,
                maximum(tree, IF node # Null THEN node ELSE tree.root))
  /\ UNCHANGED result
  /\ QueryFrame

\* successor(node) for a node of the tree
Successor ==
  /\ tree.err = ""
  /\ \E node \in Nodes(tree) :
       returned' = ReturnsNode("successor", node, successor(tree, node))
  /\ UNCHANGED result
  /\ QueryFrame

\* predecessor(node) for a node of the tree
Predecessor ==
  /\ tree.err = ""
  /\ \E node \in Nodes(tree) :
       returned' = ReturnsNode("predecessor", node, predecessor(tree, node))
  /\ UNCHANGED result
  /\ QueryFrame

\* getOrderedData(): minimum() reads a property of null on an empty tree.
GetOrderedData ==
  /\ tree.err = ""
  /\ returned' =
       IF tree.root = Null THEN Throws("getOrderedData", Null, NoInterval)
       ELSE ReturnsData("getOrderedData", NoInterval, getOrderedData(tree))
  /\ UNCHANGED result
  /\ QueryFrame

\* getOrdered()
GetOrdered ==
  /\ tree.err = ""
  /\ returned' =
       IF tree.root = Null THEN Throws("getOrdered", Null, NoInterval)
       ELSE Call("getOrdered", Null, NoInterval, "nodes", getOrdered(tree),
                 <<>>, 0)
  /\ UNCHANGED result
  /\ QueryFrame

\* getReverseOrderedData()
GetReverseOrderedData ==
  /\ tree.err = ""
  /\ returned' =
       IF tree.root = Null
       THEN Throws("getReverseOrderedData", Null, NoInterval)
       ELSE ReturnsData("getReverseOrderedData", NoInterval,
                        getReverseOrderedData(tree))
  /\ UNCHANGED result
  /\ QueryFrame

\* searchInterval(interval), without a node as its callers call it.  On an
\* empty tree line 517 has run when line 519 reads a property of null.
SearchInterval ==
  /\ tree.err = ""
  /\ \E interval \in QueryIntervals :
       IF tree.root = Null
       THEN /\ returned' = Throws("searchInterval", Null, interval)
            /\ result' = <<>>
       ELSE /\ returned' = ReturnsData("searchInterval", interval,
                                       SearchCall(tree, interval, result))
            /\ result' = SearchCall(tree, interval, result)
  /\ QueryFrame

\* getBlackHeight()
GetBlackHeight ==
  /\ tree.err = ""
  /\ returned' = Call("getBlackHeight", Null, NoInterval, "number", <<>>,
                      <<>>, getBlackHeight(tree))
  /\ UNCHANGED result
  /\ QueryFrame

NextQuery ==
  \/ InsertQueried
  \/ GetSize
  \/ Minimum
  \/ Maximum
  \/ Successor
  \/ Predecessor
  \/ GetOrderedData
  \/ GetOrdered
  \/ GetReverseOrderedData
  \/ SearchInterval
  \/ GetBlackHeight

SpecQuery == Init /\ [][NextQuery]_vars

----------------------------------------------------------------------------
(* FB.ui.calendar.Calendar and FB.ui.calendar.Event *)

\* Calendar.getDefaultOptions().width
TotalWidth == 600

\* _getElementWidth / _getElementHeight with Browser.BORDER_BOX true (any
\* browser but IE6 / IE7): the value is passed through.
getElementWidth(width) == width

getElementHeight(height) == height

\* render that takes the end of the event for its duration.
EventRender_EndAsHeight(event, width, level) ==
  [id |-> event.id,
   width |-> getElementWidth(width),
   height |-> getElementHeight(event.end),
   left |-> (level * width) + 10,
   top |-> event.start]

\* Event.prototype.render(width, level): the fields it sets, which are also
\* the values written into the returned HTML string.
EventRender(event, width, level) ==
  [id |-> event.id,
   width |-> getElementWidth(width),
   height |-> getElementHeight(event.end - event.start),
   left |-> (level * width) + 10,
   top |-> event.start]

\* _addToBin without the break: the event goes into every bin that has room.
RECURSIVE AddToBinFrom_NoBreak(_, _, _)
AddToBinFrom_NoBreak(event, bins, i) ==
  IF i > Len(bins)
  THEN IF \E j \in 1..Len(bins) :
            /\ Len(bins[j].events) > 0
            /\ bins[j].events[Len(bins[j].events)] = event
       THEN bins
       ELSE Append(bins, [max |-> event.end, events |-> <<event>>])
  ELSE IF event.start >= bins[i].max
       THEN AddToBinFrom_NoBreak(event,
              [bins EXCEPT ![i] = [max |-> event.end,
                                   events |-> Append(@.events, event)]],
              i + 1)
       ELSE AddToBinFrom_NoBreak(event, bins, i + 1)

\* _addToBin that asks for a start after the end of the bin.
RECURSIVE AddToBinFrom_Greater(_, _, _)
AddToBinFrom_Greater(event, bins, i) ==
  IF i > Len(bins)
  THEN Append(bins, [max |-> event.end, events |-> <<event>>])
  ELSE IF event.start > bins[i].max
       THEN [bins EXCEPT ![i] = [max |-> event.end,
                                 events |-> Append(@.events, event)]]
       ELSE AddToBinFrom_Greater(event, bins, i + 1)

\* _addToBin that leaves the max of the bin it adds to.
RECURSIVE AddToBinFrom_KeepMax(_, _, _)
AddToBinFrom_KeepMax(event, bins, i) ==
  IF i > Len(bins)
  THEN Append(bins, [max |-> event.end, events |-> <<event>>])
  ELSE IF event.start >= bins[i].max
       THEN [bins EXCEPT ![i] = [max |-> @.max,
                                 events |-> Append(@.events, event)]]
       ELSE AddToBinFrom_KeepMax(event, bins, i + 1)

\* The loop of _addToBin from bin i on: the bins after the event is placed.
RECURSIVE AddToBinFrom(_, _, _)
AddToBinFrom(event, bins, i) ==
  IF i > Len(bins)
  THEN Append(bins, [max |-> event.end, events |-> <<event>>])
  ELSE IF event.start >= bins[i].max
       THEN [bins EXCEPT ![i] = [max |-> event.end,
                                 events |-> Append(@.events, event)]]
       ELSE AddToBinFrom(event, bins, i + 1)

\* _addToBin(event, bins)
AddToBin(event, bins) == AddToBinFrom(event, bins, 1)

\* _renderEvents that divides by the number of events of the column.
RECURSIVE RenderEventsFrom_PerColumn(_, _)
RenderEventsFrom_PerColumn(bins, level) ==
  IF level > Len(bins) THEN <<>>
  ELSE [i \in 1..Len(bins[level].events) |->
          EventRender(bins[level].events[i],
                      TotalWidth \div Len(bins[level].events), level - 1)]
       \o RenderEventsFrom_PerColumn(bins, level + 1)

\* _renderEvents that divides by the number of the column.
RECURSIVE RenderEventsFrom_ByLevel(_, _)
RenderEventsFrom_ByLevel(bins, level) ==
  IF level > Len(bins) THEN <<>>
  ELSE [i \in 1..Len(bins[level].events) |->
          EventRender(bins[level].events[i], TotalWidth \div level,
                      level - 1)]
       \o RenderEventsFrom_ByLevel(bins, level + 1)

\* The outer loop of _renderEvents from column `level' (counted from 1 here,
\* from 0 in the source).  this._options.width / bins.length is exact for
\* every column count up to 6.
RECURSIVE RenderEventsFrom(_, _)
RenderEventsFrom(bins, level) ==
  IF level > Len(bins) THEN <<>>
  ELSE [i \in 1..Len(bins[level].events) |->
          EventRender(bins[level].events[i], TotalWidth \div Len(bins),
                      level - 1)]
       \o RenderEventsFrom(bins, level + 1)

\* _renderEvents(bins): the emitted records in order.
RenderEvents(bins) == RenderEventsFrom(bins, 1)

\* The fields of a new Event before its first render: null, written -1.
NullPosition == [top |-> -1, left |-> -1, width |-> -1, height |-> -1]

\* The writes of Event.prototype.render to the Event objects, in order.
RECURSIVE ApplyRender(_, _, _)
ApplyRender(lay, ems, i) ==
  IF i > Len(ems) THEN lay
  ELSE ApplyRender([lay EXCEPT ![ems[i].id] =
                      [top |-> ems[i].top, left |-> ems[i].left,
                       width |-> ems[i].width, height |-> ems[i].height]],
                   ems, i + 1)

\* The loop of setEvents: the tree after inserting input[i..].
RECURSIVE InsertAll(_, _, _)
InsertAll(t, input, i) ==
  IF i > Len(input) \/ t.err # "" THEN t
  ELSE InsertAll(TreeInsert(t, Event(i, input[i])), input, i + 1)

\* setEvents, lines 970-971, on the tree the loop built from n events.
\* getOrderedData on a tree without root reads a property of null.
SetEventsResult(t, n) ==
  IF t.err # ""
  THEN [calendarTree |-> <<t>>, events |-> events, layout |-> layout,
        error |-> t.err]
  ELSE IF t.root = Null
  THEN [calendarTree |-> <<t>>, events |-> events, layout |-> layout,
        error |-> "TypeError"]
  ELSE [calendarTree |-> <<t>>, events |-> <<getOrderedData(t)>>,
        layout |-> [id \in 1..n |-> NullPosition],
        error |-> ""]

\* setEvents(events): the fields it leaves.  this._tree is assigned before the
\* loop.
SetEventsOutcome(input) ==
  SetEventsResult(InsertAll(NewTree, input, 1), Len(input))

\* isRendered that never finds a mark.
isRendered_Never(event) == FALSE

\* isRendered(event)
isRendered(event) == event.id \in renderedEvents

\* The activation of _render(events, binsByRef): ref is binsByRef (0 when
\* undefined), i the loop index, bins the `bins' of the running iteration.
Frame(evs, ref) == [events |-> evs, i |-> 1, ref |-> ref, bins |-> 0]

----------------------------------------------------------------------------
(* Specification of the calendar *)

EventIntervals ==
  {iv \in [start : 0..MaxEventTime, end : 0..MaxEventTime] : iv.start < iv.end}

Inputs(n) == UNION {[1..k -> EventIntervals] : k \in 0..n}

\* Six events for which the tree caches a max of 2 at the left child of the
\* root although [3, 4] is stored below it.
StaleMaxInput ==
  << [start |-> 4, end |-> 5], [start |-> 1, end |-> 2],
     [start |-> 4, end |-> 5], [start |-> 0, end |-> 2],
     [start |-> 3, end |-> 4], [start |-> 3, end |-> 4] >>

\* Six events with distinct starts, given out of order, for which the tree
\* caches a max of 2 at the left child of the root although [4, 7] and [3, 6]
\* are stored below it.
UnsortedInput ==
  << [start |-> 6, end |-> 7], [start |-> 1, end |-> 2],
     [start |-> 5, end |-> 7], [start |-> 0, end |-> 1],
     [start |-> 4, end |-> 7], [start |-> 3, end |-> 6] >>

RerunInputs(n) == UNION {[1..k -> TestIntervals] : k \in 0..n}

\* The events of testEventColliding as one array.
TestDay ==
  << [start |-> 20, end |-> 100], [start |-> 40, end |-> 150],
     [start |-> 160, end |-> 300] >>

\* The event arrays tried: up to MaxEvents events, StaleMaxInput and
\* UnsortedInput while no events are set; up to MaxRerunEvents of the tests' events when up to
\* MaxRerunEvents events are set; TestDay when a run of up to MaxRerunEvents
\* events or of StaleMaxInput has left its output; none else.
AllowedInputs ==
  IF events = <<>> THEN Inputs(MaxEvents) \cup {StaleMaxInput, UnsortedInput}
  ELSE (IF Len(events[1]) <= MaxRerunEvents THEN RerunInputs(MaxRerunEvents)
        ELSE {})
       \cup (IF /\ innerHTML # <<>>
                 /\ \/ Len(events[1]) <= MaxRerunEvents
                    \/ Len(events[1]) = Len(StaleMaxInput)
              THEN {TestDay} ELSE {})

\* The assignments of setEvents, from its outcome.
SetEventsAssign(o) ==
  /\ calendarTree' = o.calendarTree
  /\ events' = o.events
  /\ layout' = o.layout
  /\ error' = o.error

\* setEvents(events)
SetEvents ==
  /\ pc = "idle"
  /\ \E input \in AllowedInputs : SetEventsAssign(SetEventsOutcome(input))
  /\ UNCHANGED <<tree, renderedEvents, binLists, stack, html, innerHTML, pc,
                 calls, result, returned>>

\* clear()
Clear ==
  /\ pc = "idle"
  /\ innerHTML' = <<>>
  /\ renderedEvents' = {}
  /\ error' = ""
  /\ UNCHANGED <<tree, calendarTree, events, layout, binLists, stack, html, pc,
                 calls, result, returned>>

\* render() without line 1021: clear(), then _render reads events.length.
Render_NoCheck ==
  /\ pc = "idle"
  /\ innerHTML' = <<>>
  /\ renderedEvents' = {}
  /\ IF events = <<>>
     THEN /\ error' = "TypeError"
          /\ UNCHANGED <<binLists, stack, html, pc, calls>>
     ELSE /\ error' = ""
          /\ calls' = NoCalls
          /\ binLists' = <<>>
          /\ html' = <<>>
          /\ stack' = <<Frame(events[1], 0)>>
          /\ pc' = "render"
  /\ UNCHANGED <<tree, calendarTree, events, layout, result, returned>>

\* render() up to its call of _render: throws without events, else clear()
\* and the activation of _render(events).
Render ==
  /\ pc = "idle"
  /\ IF events = <<>>
     THEN /\ error' = "No events set"
          /\ UNCHANGED <<renderedEvents, binLists, stack, html, innerHTML, pc,
                         calls>>
     ELSE /\ error' = ""
          /\ calls' = NoCalls
          /\ innerHTML' = <<>>
          /\ renderedEvents' = {}
          /\ binLists' = <<>>
          /\ html' = <<>>
          /\ stack' = <<Frame(events[1], 0)>>
          /\ pc' = "render"
  /\ UNCHANGED <<tree, calendarTree, events, layout, result, returned>>

\* layOutDay whose render() keeps the marks of the run before.
LayOutDayRender_KeepMarks(o) ==
  /\ SetEventsAssign(o)
  /\ IF o.error # ""
     THEN UNCHANGED <<renderedEvents, binLists, stack, html, innerHTML, pc,
                      calls>>
     ELSE /\ calls' = NoCalls
          /\ innerHTML' = <<>>
          /\ UNCHANGED renderedEvents
          /\ binLists' = <<>>
          /\ html' = <<>>
          /\ stack' = <<Frame(o.events[1], 0)>>
          /\ pc' = "render"

\* layOutDay, from the outcome of its setEvents: render() up to its call of
\* _render unless setEvents threw.
LayOutDayRender(o) ==
  /\ SetEventsAssign(o)
  /\ IF o.error # ""
     THEN UNCHANGED <<renderedEvents, binLists, stack, html, innerHTML, pc,
                      calls>>
     ELSE /\ calls' = NoCalls
          /\ innerHTML' = <<>>
          /\ renderedEvents' = {}
          /\ binLists' = <<>>
          /\ html' = <<>>
          /\ stack' = <<Frame(o.events[1], 0)>>
          /\ pc' = "render"

\* layOutDay(events)
LayOutDay ==
  /\ pc = "idle"
  /\ \E input \in AllowedInputs : LayOutDayRender(SetEventsOutcome(input))
  /\ UNCHANGED <<tree, result, returned>>

\* One iteration of the loop of _render, up to the recursive call.  The array
\* made by `binsByRef || []' for an event that is skipped is never used.
RenderIter ==
  /\ pc = "render"
  /\ LET top == Len(stack)
         f == stack[top]
     IN /\ f.i <= Len(f.events)
        /\ LET event == f.events[f.i]
           IN IF isRendered(event)
              THEN /\ stack' = [stack EXCEPT ![top].i = @ + 1]
                   /\ calls' = [calls EXCEPT !.iterations = @ + 1]
                   /\ UNCHANGED <<renderedEvents, binLists, error, pc, result>>
              ELSE LET b == IF f.ref # 0 THEN f.ref ELSE Len(binLists) + 1
                       lists == IF f.ref # 0 THEN binLists
                                ELSE Append(binLists, <<>>)
                       t == calendarTree[1]
                   IN /\ renderedEvents' = renderedEvents \cup {event.id}
                      /\ calls' =
                           [calls EXCEPT
                              !.iterations = @ + 1,
                              !.addToBin = Append(@, event.id),
                              !.searchInterval = Append(@, event.id)]
                      /\ binLists' = [lists EXCEPT ![b] = AddToBin(event, @)]
                      /\ IF t.root = Null
                         THEN /\ error' = "TypeError"
                              /\ stack' = <<>>
                              /\ pc' = "idle"
                              /\ result' = <<>>
                         ELSE /\ stack' =
                                   Append([stack EXCEPT ![top].bins = b],
                                          Frame(SearchCall(t, event, result), b))
                              /\ result' = SearchCall(t, event, result)
                              /\ UNCHANGED <<error, pc>>
  /\ UNCHANGED <<tree, calendarTree, events, layout, html, innerHTML, returned>>

\* The return of one activation of _render: its caller emits the events of
\* its bins and goes on to its next event; render() stores the HTML.
RenderReturn ==
  /\ pc = "render"
  /\ LET top == Len(stack)
         f == stack[top]
     IN /\ f.i > Len(f.events)
        /\ IF top = 1
           THEN /\ innerHTML' = html
                /\ stack' = <<>>
                /\ pc' = "idle"
                /\ UNCHANGED <<html, layout>>
           ELSE LET ems == RenderEvents(binLists[stack[top - 1].bins])
                IN /\ html' = html \o ems
                   /\ layout' = ApplyRender(layout, ems, 1)
                   /\ stack' = [SubSeq(stack, 1, top - 1)
                                  EXCEPT ![top - 1].i = @ + 1]
                   /\ UNCHANGED <<innerHTML, pc>>
  /\ UNCHANGED <<tree, calendarTree, events, renderedEvents, binLists, error,
                 calls, result, returned>>

NextCalendar ==
  SetEvents \/ Clear \/ Render \/ LayOutDay \/ RenderIter \/ RenderReturn

SpecCalendar == Init /\ [][NextCalendar]_vars

----------------------------------------------------------------------------
(* Reference definitions the properties compare the tree against *)

\* The handles in the subtree rooted at n (none when n is absent).
RECURSIVE SubtreeNodes(_, _)
SubtreeNodes(t, n) ==
  IF n = Null THEN {}
  ELSE {n} \cup SubtreeNodes(t, t.left[n]) \cup SubtreeNodes(t, t.right[n])

SetMax(S) == CHOOSE m \in S : \A x \in S : x <= m

\* The largest end stored in the subtree rooted at the present node n.
TrueMax(t, n) == SetMax({t.data[k].end : k \in SubtreeNodes(t, n)})

\* The numbers of BLACK nodes on the paths from n down to an absent child.
RECURSIVE BlackCounts(_, _)
BlackCounts(t, n) ==
  IF n = Null THEN {0}
  ELSE {c + (IF isBlack(t, n) THEN 1 ELSE 0) :
          c \in BlackCounts(t, t.left[n]) \cup BlackCounts(t, t.right[n])}

Range(seq) == {seq[i] : i \in 1..Len(seq)}

\* Brute-force scan with the closed overlap predicate.
Overlapping(t, q) ==
  {t.data[k] : k \in {j \in Nodes(t) : t.data[j].start <= q.end
                                       /\ t.data[j].end >= q.start}}

Queries == Intervals \cup {TestQuery}

----------------------------------------------------------------------------
(* Properties of the tree *)

\* C1: on every non-empty tree built by inserts, searchInterval(q) from the
\* root returns exactly the stored intervals x with x.start <= q.end and
\* x.end >= q.start.
C1_SearchExact ==
  (tree.err = "" /\ tree.root # Null) =>
    \A q \in Queries :
      Range(searchInterval(tree, q, tree.root)) = Overlapping(tree, q)

\* C2: after every insert, every node's cached max equals the largest end in
\* its subtree.
C2_MaxIsSubtreeMax ==
  tree.err = "" =>
    \A n \in SubtreeNodes(tree, tree.root) : tree.max[n] = TrueMax(tree, n)

\* C4: after every insert no RED node has a RED child.
C4_NoRedRed ==
  \A n \in Nodes(tree) :
    isRed(tree, n) =>
      /\ tree.left[n] # Null => isBlack(tree, tree.left[n])
      /\ tree.right[n] # Null => isBlack(tree, tree.right[n])

\* A RED node that has both children.
C4_Witness ==
  /\ tree.err = ""
  /\ \E n \in Nodes(tree) :
       /\ isRed(tree, n)
       /\ tree.left[n] # Null
       /\ tree.right[n] # Null

\* C5: after every insert all paths from the root to an absent child hold the
\* same number of BLACK nodes, getBlackHeight returns that number, and it is 3
\* for the ten insertions of the test.
C5_BlackHeight ==
  /\ BlackCounts(tree, tree.root) = {getBlackHeight(tree)}
  /\ (IsTestDataPrefix(tree) /\ Len(tree.data) = TestDataSize)
       => getBlackHeight(tree) = 3

C5_Witness ==
  /\ IsTestDataPrefix(tree)
  /\ Len(tree.data) = TestDataSize
  /\ getBlackHeight(tree) = 3

\* C6: after every insert the root is BLACK.
C6_RootBlack == tree.root # Null => isBlack(tree, tree.root)

\* A rotation of the fix-up has replaced the first inserted node as root.
C6_Witness ==
  /\ tree.root # Null
  /\ tree.root # 1
  /\ isBlack(tree, tree.root)

\* C7: getOrderedData returns every inserted interval once, ordered by start
\* and, among equal starts, by insertion.
C7_StableOrder ==
  (tree.err = "" /\ tree.root # Null) =>
    LET od == getOrderedData(tree)
    IN /\ Len(od) = Len(tree.data)
       /\ Range(od) = Range(tree.data)
       /\ \A i \in 1..(Len(od) - 1) :
            \/ od[i].start < od[i + 1].start
            \/ (od[i].start = od[i + 1].start /\ od[i].id < od[i + 1].id)

\* Equal starts below a root that is not the first inserted node.
C7_Witness ==
  /\ tree.err = ""
  /\ Len(tree.data) >= 3
  /\ tree.root # 1
  /\ \E i, j \in Nodes(tree) :
       i # j /\ tree.data[i].start = tree.data[j].start

\* C8: getSize is 0 for a new tree and equals both the number of insertions
\* and the number of nodes reachable from the root.
C8_Size ==
  /\ getSize(tree) = Len(tree.data)
  /\ getSize(tree) = Cardinality(SubtreeNodes(tree, tree.root))

C8_Witness ==
  /\ getSize(tree) = 2
  /\ tree.data[1].start = tree.data[2].start
  /\ tree.data[1].end = tree.data[2].end

\* C9: insert never fails.
C9_InsertNeverFails == tree.err = ""

\* An insert whose fix-up rotated twice (inner case): the new node is the root
\* of a three-node tree.
C9_Witness ==
  /\ tree.err = ""
  /\ Len(tree.data) = 3
  /\ tree.root = 3

\* C12: after every insert the root has no parent, every present child has
\* the node it hangs below as parent, no node is the child of two nodes (or
\* twice of one), and every inserted node is reachable from the root.
C12_ParentLinks ==
  tree.err = "" =>
    /\ tree.root # Null => getParent(tree, tree.root) = Null
    /\ \A n \in Nodes(tree) : \A d \in {LEFT, RIGHT} :
         getChild(tree, n, d) # Null =>
           getParent(tree, getChild(tree, n, d)) = n
    /\ \A c \in Nodes(tree) :
         Cardinality({nd \in Nodes(tree) \X {LEFT, RIGHT} :
                        getChild(tree, nd[1], nd[2]) = c}) <= 1
    /\ SubtreeNodes(tree, tree.root) = Nodes(tree)

\* A rotation has put a node that has a child below a node inserted after it.
C12_Witness ==
  /\ tree.err = ""
  /\ \E n \in Nodes(tree) :
       /\ getParent(tree, n) > n
       /\ tree.left[n] # Null
       /\ tree.right[n] # Null

\* C15: on a non-empty tree minimum() returns the node of the first element
\* of getOrderedData, which has the smallest start and among equal starts was
\* inserted first; maximum() returns the node of the last element, which has
\* the largest start and among equal starts was inserted last.
C15_MinimumMaximum ==
  (tree.err = "" /\ tree.root # Null) =>
    /\ tree.data[minimum(tree, tree.root)] = getOrderedData(tree)[1]
    /\ tree.data[maximum(tree, tree.root)]
         = getOrderedData(tree)[Len(tree.data)]
    /\ \A n \in Nodes(tree) :
         /\ \/ tree.data[minimum(tree, tree.root)].start < tree.data[n].start
            \/ /\ tree.data[minimum(tree, tree.root)].start = tree.data[n].start
               /\ minimum(tree, tree.root) <= n
         /\ \/ tree.data[maximum(tree, tree.root)].start > tree.data[n].start
            \/ /\ tree.data[maximum(tree, tree.root)].start = tree.data[n].start
               /\ maximum(tree, tree.root) >= n

\* Neither is the root, and another node has the start of each.
C15_Witness ==
  /\ tree.err = ""
  /\ tree.root # Null
  /\ minimum(tree, tree.root) # tree.root
  /\ maximum(tree, tree.root) # tree.root
  /\ \E n \in Nodes(tree) :
       /\ n # minimum(tree, tree.root)
       /\ tree.data[n].start = tree.data[minimum(tree, tree.root)].start
  /\ \E n \in Nodes(tree) :
       /\ n # maximum(tree, tree.root)
       /\ tree.data[n].start = tree.data[maximum(tree, tree.root)].start


\* C16 as stated: insert returns the node it has just inserted, whose data is
\* the given interval.
C16_InsertReturnsNode ==
  returned.op = "insert" =>
    /\ returned.kind = "node"
    /\ returned.nodes = <<Len(tree.data)>>
    /\ tree.data[Len(tree.data)] = returned.interval

\* C16, amended: insert returns no value; the node it has just inserted holds
\* the given interval and is reachable from the root.
C16_InsertReturnsUndefined ==
  returned.op = "insert" =>
    /\ returned.kind = "undefined"
    /\ returned.nodes = <<>>
    /\ tree.data[Len(tree.data)] = returned.interval
    /\ Len(tree.data) \in SubtreeNodes(tree, tree.root)

\* The call was an insert whose fix-up rotated: the root is not the first node.
C16_Witness ==
  /\ returned.op = "insert"
  /\ returned.kind = "undefined"
  /\ tree.err = ""
  /\ tree.root # 1
  /\ tree.data[Len(tree.data)] = returned.interval

\* r holds some of the elements of od, each once, in the order of od.
IsSubsequence(r, od) == r = SelectSeq(od, LAMBDA x : x \in Range(r))

\* The ids of the events of a sequence.
IdsOf(r) == [i \in 1..Len(r) |-> r[i].id]

\* C21: what searchInterval returns is a subsequence of getOrderedData, and
\* for the tree of the test and the interval {10, 30} it is ids 1, 2, 3.
C21_SearchInOrder ==
  (tree.err = "" /\ tree.root # Null) =>
    /\ \A q \in Queries :
         IsSubsequence(searchInterval(tree, q, tree.root),
                       getOrderedData(tree))
    /\ (IsTestDataPrefix(tree) /\ Len(tree.data) = TestDataSize) =>
         IdsOf(searchInterval(tree, TestQuery, tree.root)) = <<1, 2, 3>>

\* The tree of the test, in which the search for {10, 30} finds three events
\* on both sides of a node that is not the root.
C21_Witness ==
  /\ IsTestDataPrefix(tree)
  /\ Len(tree.data) = TestDataSize
  /\ Len(searchInterval(tree, TestQuery, tree.root)) = 3
  /\ searchInterval(tree, TestQuery, tree.root)[1].id = 1

\* Every element of r is stored in the tree and overlaps q, and none is in r
\* twice.
SoundResult(r, q) ==
  /\ Range(r) \subseteq Overlapping(tree, q)
  /\ Cardinality(Range(r)) = Len(r)

\* C25: every interval searchInterval returns is stored in the tree and
\* overlaps the interval asked for (closed predicate), and none is returned
\* twice.
C25_SearchSound ==
  (tree.err = "" /\ tree.root # Null) =>
    \A q \in Queries : SoundResult(searchInterval(tree, q, tree.root), q)

\* A search that returns some stored intervals and leaves out one that does
\* not overlap.
C25_Witness ==
  /\ tree.err = ""
  /\ tree.root # Null
  /\ \E q \in Queries :
       /\ Len(searchInterval(tree, q, tree.root)) >= 2
       /\ Overlapping(tree, q) # Range(tree.data)

\* C26: in every tree built by inserts, for every node its own end <= its
\* cached max <= the largest end in its subtree.
C26_MaxBounds ==
  tree.err = "" =>
    \A n \in Nodes(tree) :
      /\ tree.data[n].end <= tree.max[n]
      /\ tree.max[n] <= TrueMax(tree, n)

\* A node whose cached max is below the largest end in its subtree.
C26_Witness ==
  /\ tree.err = ""
  /\ \E n \in Nodes(tree) :
       /\ tree.data[n].end <= tree.max[n]
       /\ tree.max[n] < TrueMax(tree, n)

\* C23: when a rotation of the fix-up returns, the node rotated down and the
\* node that replaced it both cache max(own end, left child's cached max,
\* right child's cached max), taken over their children at that moment.
C23_RotationRecomputesMax ==
  \A i \in 1..Len(tree.rotations) :
    /\ tree.rotations[i].downMax = tree.rotations[i].downGetMax
    /\ tree.rotations[i].upMax = tree.rotations[i].upGetMax

----------------------------------------------------------------------------
(* Properties of the queries of the tree *)

\* C13: a call that is no insert leaves the tree (root, links, colours,
\* cached max values, size) as it was; what getOrderedData returns is the
\* ordered data of the tree alone, so two calls with no insert in between
\* return the same sequence; what searchInterval returns is determined by the
\* tree and the interval alone, whatever earlier searches left in `result'.
C13_QueriesLeaveTree ==
  [][/\ returned'.op # "insert" => tree' = tree
     /\ (returned'.op = "getOrderedData" /\ returned'.kind = "data") =>
          returned'.data = getOrderedData(tree)
     /\ (returned'.op = "searchInterval" /\ returned'.kind = "data") =>
          /\ returned'.data
               = searchInterval(tree, returned'.interval, tree.root)
          /\ result' = returned'.data]_vars

\* A search that returned some but not all stored intervals.
C13_Witness ==
  /\ returned.op = "searchInterval"
  /\ returned.kind = "data"
  /\ result = returned.data
  /\ Len(returned.data) > 0
  /\ Len(returned.data) < Len(tree.data)

----------------------------------------------------------------------------
(* Properties of the layout *)

\* The places <<list, column, position>> of the column lists that hold an event.
Placements ==
  UNION {UNION {{<<l, c, k>> : k \in 1..Len(binLists[l][c].events)} :
                  c \in 1..Len(binLists[l])} :
           l \in 1..Len(binLists)}

PlacedEvent(p) == binLists[p[1]][p[2]].events[p[3]]

\* render() has returned normally and nothing was called since.
RunEnded ==
  /\ pc = "idle"
  /\ error = ""
  /\ events # <<>>
  /\ innerHTML # <<>>
  /\ \A id \in DOMAIN layout : layout[id] # NullPosition

\* C3: after one layout call no two distinct events placed at the same column
\* index overlap under the closed predicate.
C3_SameColumnDisjointClosed ==
  RunEnded =>
    \A p, q \in Placements :
      (p[2] = q[2] /\ PlacedEvent(p).id # PlacedEvent(q).id) =>
        ~(PlacedEvent(p).start <= PlacedEvent(q).end
          /\ PlacedEvent(p).end >= PlacedEvent(q).start)

\* Events that share more than an endpoint at one column index: the layout of
\* StaleMaxInput violates this weaker statement too.
SameColumnDisjointOpen ==
  RunEnded =>
    \A p, q \in Placements :
      (p[2] = q[2] /\ PlacedEvent(p).id # PlacedEvent(q).id) =>
        ~(PlacedEvent(p).start < PlacedEvent(q).end
          /\ PlacedEvent(p).end > PlacedEvent(q).start)

\* C10: during a layout run no event is held at two places and the events
\* held are the events marked rendered; when the run ends every input event
\* is marked rendered and held at exactly one place.
C10_PlacedExactlyOnce ==
  /\ (pc = "render" \/ RunEnded) =>
       /\ \A p, q \in Placements :
            PlacedEvent(p).id = PlacedEvent(q).id => p = q
       /\ {PlacedEvent(p).id : p \in Placements} = renderedEvents
  /\ RunEnded =>
       \A i \in 1..Len(events[1]) :
         /\ events[1][i].id \in renderedEvents
         /\ Cardinality({p \in Placements : PlacedEvent(p) = events[1][i]}) = 1
\* A run that ended with two column lists, one of them with two columns.
C10_Witness ==
  /\ RunEnded
  /\ Len(binLists) >= 2
  /\ \E l \in 1..Len(binLists) : Len(binLists[l]) >= 2
  /\ \A i \in 1..Len(events[1]) :
       Cardinality({p \in Placements : PlacedEvent(p) = events[1][i]}) = 1

\* The column list that holds the event with this id (each is held once).
ListOf(id) == CHOOSE l \in 1..Len(binLists) :
                \E p \in Placements : p[1] = l /\ PlacedEvent(p).id = id

\* C11: when a layout run has ended, any two input events that overlap under
\* the closed predicate are held in the same column list and have the same
\* width (total width / column count).  Being held in the same list is
\* transitive, so this covers events joined by a chain of overlaps.
C11_ClusterInOneList ==
  RunEnded =>
    \A i, j \in 1..Len(events[1]) :
      (events[1][i].start <= events[1][j].end
       /\ events[1][i].end >= events[1][j].start) =>
        /\ ListOf(events[1][i].id) = ListOf(events[1][j].id)
        /\ layout[events[1][i].id].width = layout[events[1][j].id].width

\* The intervals of the events that are set, and of testEventColliding.
CollidingDomain ==
  (IF events = <<>> THEN {}
   ELSE {[start |-> e.start, end |-> e.end] : e \in Range(events[1])})
    \cup TestIntervals \cup {TestQuery}

\* C14: isColliding(a, b) is true exactly when a.start <= b.end and
\* a.end >= b.start, and isColliding(a, b) = isColliding(b, a).
C14_IsColliding ==
  \A a, b \in CollidingDomain :
    /\ isColliding(a, b) = (a.start <= b.end /\ a.end >= b.start)
    /\ isColliding(a, b) = isColliding(b, a)

\* getCollisions of the event being placed has returned an event that only
\* touches it.
C14_Witness ==
  /\ pc = "render"
  /\ Len(stack) >= 2
  /\ \E i \in 1..Len(stack[Len(stack)].events) :
       /\ stack[Len(stack)].events[i].end
            = stack[Len(stack) - 1].events[stack[Len(stack) - 1].i].start
       /\ isColliding(stack[Len(stack)].events[i],
                      stack[Len(stack) - 1].events[stack[Len(stack) - 1].i])
       /\ isColliding(stack[Len(stack) - 1].events[stack[Len(stack) - 1].i],
                      stack[Len(stack)].events[i])

\* The columns of the list that holds the event of an emitted record.
ColumnsOf(r) == Len(binLists[ListOf(r.id)])

\* The column index, from 0, of the event of an emitted record.
ColumnOf(r) ==
  (CHOOSE c \in 1..ColumnsOf(r) :
     \E k \in 1..Len(binLists[ListOf(r.id)][c].events) :
       binLists[ListOf(r.id)][c].events[k].id = r.id) - 1

\* C17 as stated: every record emitted for an event in column k of a list of
\* c columns has width = total width / c and left = k * width.
C17_LeftIsColumnTimesWidth ==
  [][\A n \in (Len(html) + 1)..Len(html') :
       /\ html'[n].width * ColumnsOf(html'[n]) = TotalWidth
       /\ html'[n].left = ColumnOf(html'[n]) * html'[n].width]_vars

\* C17, amended: every record emitted for an event in column k of a list of
\* c columns has width = total width / c and left = k * width + 10.
C17_LeftIsColumnTimesWidthPlusTen ==
  [][\A n \in (Len(html) + 1)..Len(html') :
       /\ html'[n].width * ColumnsOf(html'[n]) = TotalWidth
       /\ html'[n].left = (ColumnOf(html'[n]) * html'[n].width) + 10]_vars

\* Records were emitted for a list of three columns, the last at left 410.
C17_Witness ==
  /\ pc = "render"
  /\ Len(html) >= 3
  /\ html[Len(html)].width * 3 = TotalWidth
  /\ html[Len(html)].left = (2 * html[Len(html)].width) + 10
  /\ ColumnsOf(html[Len(html)]) = 3
  /\ ColumnOf(html[Len(html)]) = 2

\* The event overlaps no other event that is set (closed predicate).
Isolated(e) ==
  \A i \in 1..Len(events[1]) :
    events[1][i].id # e.id =>
      ~(events[1][i].start <= e.end /\ events[1][i].end >= e.start)

\* C18: when a layout run has ended, an event that overlaps no other input
\* event is in column 0 of a list of one column, and has the total width, its
\* start as top and end - start as height.
C18_IsolatedEvent ==
  RunEnded =>
    \A p \in Placements :
      Isolated(PlacedEvent(p)) =>
        /\ p[2] = 1
        /\ Len(binLists[p[1]]) = 1
        /\ layout[PlacedEvent(p).id].width = TotalWidth
        /\ layout[PlacedEvent(p).id].top = PlacedEvent(p).start
        /\ layout[PlacedEvent(p).id].height
             = PlacedEvent(p).end - PlacedEvent(p).start

\* A run has ended with an event that overlaps no other and two that overlap.
C18_Witness ==
  /\ RunEnded
  /\ \E p \in Placements :
       /\ Isolated(PlacedEvent(p))
       /\ layout[PlacedEvent(p).id].width = TotalWidth
       /\ PlacedEvent(p).end - PlacedEvent(p).start > 1
  /\ \E p \in Placements : ~Isolated(PlacedEvent(p))

\* C19: on a Calendar without events render() fails with 'No events set' and
\* leaves the rendered marks, the events, the tree and the output unchanged.
C19_RenderWithoutEvents ==
  (pc = "idle" /\ events = <<>>) =>
    /\ ENABLED Render
    /\ ~ ENABLED (Render /\ ~(/\ error' = "No events set"
                             /\ UNCHANGED <<renderedEvents, events,
                                            calendarTree, innerHTML>>))

\* render() has failed on a Calendar without events.
C19_Witness ==
  /\ pc = "idle"
  /\ events = <<>>
  /\ error = "No events set"
  /\ renderedEvents = {}
  /\ innerHTML = <<>>

----------------------------------------------------------------------------
(* A layout run on a new Calendar, as a function of the tree and the events *)

RunState(n) ==
  [rendered |-> {}, lists |-> <<>>, html |-> <<>>,
   layout |-> [id \in 1..n |-> NullPosition]]

\* binsByRef || []
BinsRef(ref, st) == IF ref # 0 THEN ref ELSE Len(st.lists) + 1

\* _setIsRendered(event); _addToBin(event, bins)
PlaceIn(event, b, st) ==
  [st EXCEPT !.rendered = @ \cup {event.id},
             !.lists = [(IF b > Len(st.lists) THEN Append(st.lists, <<>>)
                         ELSE st.lists) EXCEPT ![b] = AddToBin(event, @)]]

\* html.concat(this._renderEvents(bins))
EmitFrom(st, b) ==
  [st EXCEPT !.html = @ \o RenderEvents(st.lists[b]),
             !.layout = ApplyRender(@, RenderEvents(st.lists[b]), 1)]

\* _render(evs, binsByRef) from its event i on
RECURSIVE RenderFrom(_, _, _, _, _)
RenderFrom(t, evs, i, ref, st) ==
  IF i > Len(evs) THEN st
  ELSE IF evs[i].id \in st.rendered THEN RenderFrom(t, evs, i + 1, ref, st)
  ELSE RenderFrom(t, evs, i + 1, ref,
         EmitFrom(RenderFrom(t, searchInterval(t, evs[i], t.root), 1,
                             BinsRef(ref, st),
                             PlaceIn(evs[i], BinsRef(ref, st), st)),
                  BinsRef(ref, st)))

\* render() on a new Calendar that holds this tree and these events
FreshRun(t, evs) == RenderFrom(t, evs, 1, 0, RunState(Len(evs)))

\* C20: a layout run that ends leaves, for every event, the column, the
\* column list, the width and the left that the same events get on a new
\* Calendar, whatever was laid out on this Calendar before.
C20_RunIndependent ==
  [][(pc = "render" /\ pc' = "idle" /\ error' = "") =>
       /\ layout' = FreshRun(calendarTree[1], events[1]).layout
       /\ binLists' = FreshRun(calendarTree[1], events[1]).lists
       /\ innerHTML' = FreshRun(calendarTree[1], events[1]).html]_vars

\* TestDay, which is laid out only after another run, has been laid out.
C20_Witness ==
  /\ RunEnded
  /\ Len(events[1]) = Len(TestDay)
  /\ \A i \in 1..Len(TestDay) :
       /\ events[1][i].start = TestDay[i].start
       /\ events[1][i].end = TestDay[i].end
  /\ layout = FreshRun(calendarTree[1], events[1]).layout
  /\ Len(binLists) = 2

----------------------------------------------------------------------------
(* Properties of the columns and of the run *)

\* The columns of list b before a step, none if the step makes the list.
ColumnsBefore(b) == IF b <= Len(binLists) THEN binLists[b] ELSE <<>>

\* First fit: `new' is `old' with the event appended to the first column whose
\* max is at most its start and that column's max set to its end, or with a
\* new last column that holds the event alone; nothing else differs.
FirstFit(event, old, new) ==
  IF \E i \in 1..Len(old) : old[i].max <= event.start
  THEN LET i == CHOOSE k \in 1..Len(old) :
                  /\ old[k].max <= event.start
                  /\ \A j \in 1..(k - 1) : old[j].max > event.start
       IN /\ Len(new) = Len(old)
          /\ new[i] = [max |-> event.end,
                       events |-> Append(old[i].events, event)]
          /\ \A j \in 1..Len(old) : j # i => new[j] = old[j]
  ELSE new = Append(old, [max |-> event.end, events |-> <<event>>])

\* C22: every step of a run that places an event changes the columns of the
\* list it places into as first fit says, and leaves every other list.
C22_FirstFit ==
  [][(pc = "render" /\ renderedEvents' # renderedEvents) =>
       LET f == stack[Len(stack)]
           b == IF f.ref # 0 THEN f.ref ELSE Len(binLists) + 1
       IN /\ renderedEvents' = renderedEvents \cup {f.events[f.i].id}
          /\ b <= Len(binLists')
          /\ Len(binLists') >= Len(binLists)
          /\ Len(binLists') <= Len(binLists) + 1
          /\ FirstFit(f.events[f.i], ColumnsBefore(b), binLists'[b])
          /\ \A l \in 1..Len(binLists) : l # b => binLists'[l] = binLists[l]
    ]_vars

\* A run in which an event went into the first column of a list whose second
\* column was filled before by an event that starts earlier.
C22_Witness ==
  /\ pc = "render"
  /\ \E l \in 1..Len(binLists) :
       /\ Len(binLists[l]) >= 2
       /\ Len(binLists[l][1].events) >= 2
       /\ binLists[l][2].events[1].start
            < binLists[l][1].events[Len(binLists[l][1].events)].start

\* C27: at every point of a run, in each column of each list an event starts
\* at or after the end of the event placed before it, and the max of the
\* column is the end of its last event and the largest end in the column.
C27_ColumnsOrdered ==
  \A l \in 1..Len(binLists) :
    \A c \in 1..Len(binLists[l]) :
      /\ Len(binLists[l][c].events) >= 1
      /\ \A k \in 1..(Len(binLists[l][c].events) - 1) :
           binLists[l][c].events[k + 1].start >= binLists[l][c].events[k].end
      /\ binLists[l][c].max
           = binLists[l][c].events[Len(binLists[l][c].events)].end
      /\ \A k \in 1..Len(binLists[l][c].events) :
           binLists[l][c].events[k].end <= binLists[l][c].max

\* A running layout with a column of two events, the second starting after
\* the end of the first.
C27_Witness ==
  /\ pc = "render"
  /\ \E p \in Placements :
       /\ p[3] >= 2
       /\ PlacedEvent(p).start > binLists[p[1]][p[2]].events[p[3] - 1].end

\* C28: when the run has ended every event of a list has the width
\* totalWidth / (number of columns of the list).
C28_FinalWidth ==
  RunEnded =>
    \A p \in Placements :
      layout[PlacedEvent(p).id].width = TotalWidth \div Len(binLists[p[1]])

\* A run that ended with a list of one column and a list of two or more
\* columns, one of which holds two events.
C28_Witness ==
  /\ RunEnded
  /\ \E p, q \in Placements :
       /\ Len(binLists[p[1]]) = 1
       /\ layout[PlacedEvent(p).id].width = TotalWidth
       /\ Len(binLists[q[1]]) >= 2
       /\ layout[PlacedEvent(q).id].width < TotalWidth

\* C30: a Calendar whose tree is empty, as setEvents of an empty array leaves
\* it, has thrown no TypeError and holds the empty sequence of events.
C30_EmptyLayout ==
  (calendarTree # <<>> /\ calendarTree[1].root = Null) =>
    /\ error # "TypeError"
    /\ events = << <<>> >>

\* C24: a run calls _addToBin and searchInterval at most once for an event,
\* nests at most as many recursive calls of _render as there are events, runs
\* the loop of _render at most n * (n + 1) times for n events and is never
\* stuck; when it has ended it has called both exactly once for every event.
C24_RunTerminates ==
  /\ pc = "render" =>
       /\ ENABLED (RenderIter \/ RenderReturn)
       /\ Len(stack) - 1 <= Len(events[1])
       /\ calls.iterations <= Len(events[1]) * (Len(events[1]) + 1)
       /\ \A i, j \in 1..Len(calls.addToBin) :
            calls.addToBin[i] = calls.addToBin[j] => i = j
       /\ calls.searchInterval = calls.addToBin
  /\ RunEnded =>
       /\ Len(calls.addToBin) = Len(events[1])
       /\ {calls.addToBin[i] : i \in 1..Len(calls.addToBin)}
            = {events[1][i].id : i \in 1..Len(events[1])}
       /\ calls.searchInterval = calls.addToBin
       /\ calls.iterations <= Len(events[1]) * (Len(events[1]) + 1)

\* A run of three or more events that has ended after more than two
\* iterations of the loop for each event.
C24_Witness ==
  /\ RunEnded
  /\ Len(events[1]) >= 3
  /\ Len(calls.searchInterval) = Len(events[1])
  /\ calls.iterations > 2 * Len(events[1])

\* No two of the events start at the same time.
StartsDistinct(evs) ==
  \A i, j \in 1..Len(evs) : evs[i].start = evs[j].start => i = j

\* The intervals of the events, as an input array in the order of the events.
AsInput(evs) ==
  [i \in 1..Len(evs) |-> [start |-> evs[i].start, end |-> evs[i].end]]

\* For each event of the lists, named by its start, the index of its column
\* and the number of columns of its list.
ColumnsByStart(lists) ==
  UNION {UNION {{<<lists[l][c].events[k].start, c, Len(lists[l])>> :
                    k \in 1..Len(lists[l][c].events)} :
                  c \in 1..Len(lists[l])} :
           l \in 1..Len(lists)}

\* The columns of a run on a new Calendar that holds this tree.
FreshColumns(t) == ColumnsByStart(FreshRun(t, getOrderedData(t)).lists)

\* C29: a run over events with pairwise distinct starts ends with the column
\* index and column count, for every event, of the run over the same events
\* given in the order of their starts.
C29_OrderIndependent ==
  (RunEnded /\ StartsDistinct(events[1])) =>
    ColumnsByStart(binLists)
      = FreshColumns(InsertAll(NewTree, AsInput(events[1]), 1))

====
